---------------------------- MODULE Spec2Model ----------------------------
(***************************************************************************)
(* Model of the mini-language interpreter of src/functional/main.py:       *)
(* tokenize -> parse -> evaluate, driven by the read-eval-print loop.      *)
(*                                                                         *)
(* Source text is a sequence of one-character strings; a token is the      *)
(* sequence of the characters it was cut from, so that isdigit,            *)
(* isidentifier and float(token) are computed from the characters.         *)
(* Positions are 0-based as in the source; Tok(tokens, pos) reads          *)
(* tokens[pos].  A Python exception is the "err" field of a result; an     *)
(* uncaught one ends the process.                                          *)
(*                                                                         *)
(* Values are records [kind, n, d] standing for the number n/d in lowest   *)
(* terms, kind being Python's type of it ("float", "int", "bool"), or      *)
(* kind "none" for None.  Floating-point rounding is not modelled.         *)
(***************************************************************************)
EXTENDS Integers, Sequences, FiniteSets

\* ------------------------------------------------------------------ bounds
MaxLines == 2
MaxLen == 3

\* -------------------------------------------------------------- characters
Digits == {"0", "1", "2", "3", "4", "5", "6", "7", "8", "9"}
Letters == {"a", "b", "e", "f", "h", "i", "l", "n", "s", "t", "x", "y", "z", "_"}
Symbols == {"-", "+", "*", "/", "=", ">", "<", "(", ")"}
Spaces == {" "}

DigitValue(c) ==
  CASE c = "0" -> 0 [] c = "1" -> 1 [] c = "2" -> 2 [] c = "3" -> 3
    [] c = "4" -> 4 [] c = "5" -> 5 [] c = "6" -> 6 [] c = "7" -> 7
    [] c = "8" -> 8 [] c = "9" -> 9

\* ------------------------------------------------------------------ values
NoErr == "none"

RECURSIVE Gcd(_, _)
Gcd(a, b) == IF b = 0 THEN a ELSE Gcd(b, a % b)

Abs(a) == IF a < 0 THEN -a ELSE a

Norm(kind, n, d) ==
  LET s == IF d < 0 THEN -1 ELSE 1
      g == Gcd(Abs(n), Abs(d))
  IN  [kind |-> kind, n |-> (s * n) \div g, d |-> (s * d) \div g]

Float(n) == [kind |-> "float", n |-> n, d |-> 1]
Bool(b) == [kind |-> "bool", n |-> IF b THEN 1 ELSE 0, d |-> 1]
NoneVal == [kind |-> "none", n |-> 0, d |-> 1]

\* Python's type of an arithmetic result: bool and int operands give int,
\* a float operand gives float.
ArithKind(l, r) == IF l.kind = "float" \/ r.kind = "float" THEN "float" ELSE "int"

Truthy(v) == v.kind # "none" /\ v.n # 0

\* ------------------------------------------------------------------- nodes
Number(value) == [type |-> "Number", value |-> value]
Variable(name) == [type |-> "Variable", name |-> name]
Assignment(name, value) == [type |-> "Assignment", name |-> name, value |-> value]
BinaryOp(left, operator, right) ==
  [type |-> "BinaryOp", left |-> left, operator |-> operator, right |-> right]
IfStatement(condition, then_branch, else_branch) ==
  [type |-> "IfStatement", condition |-> condition,
   then_branch |-> then_branch, else_branch |-> else_branch]
NoneNode == [type |-> "None"]

\* ---------------------------------------------------------------- tokenize
RECURSIVE SkipSpaces(_, _)
SkipSpaces(s, i) ==
  IF i <= Len(s) /\ s[i] \in Spaces THEN SkipSpaces(s, i + 1) ELSE i

RECURSIVE RunEnd(_, _, _)
RunEnd(s, i, class) ==
  IF i + 1 <= Len(s) /\ s[i + 1] \in class THEN RunEnd(s, i + 1, class) ELSE i

RECURSIVE Scan(_, _)
Scan(s, i) ==
  IF i > Len(s) THEN << >>
  ELSE LET j == SkipSpaces(s, i)
       IN  IF j <= Len(s) /\ s[j] \in Symbols
           THEN IF s[j] = "=" /\ j + 1 <= Len(s) /\ s[j + 1] = ">"
                THEN << <<"=", ">">> >> \o Scan(s, j + 2)
                ELSE << <<s[j]>> >> \o Scan(s, j + 1)
           ELSE IF s[i] \in Letters
           THEN LET k == RunEnd(s, i, Letters \cup Digits)
                IN  << SubSeq(s, i, k) >> \o Scan(s, k + 1)
           ELSE IF s[i] \in Digits
           THEN LET k == RunEnd(s, i, Digits)
                IN  << SubSeq(s, i, k) >> \o Scan(s, k + 1)
           ELSE Scan(s, i + 1)

tokenize(input_code) == Scan(input_code, 1)

\* ------------------------------------------------------------------- parse
isdigit(token) == Len(token) > 0 /\ \A i \in 1..Len(token) : token[i] \in Digits

isidentifier(token) ==
  /\ Len(token) > 0
  /\ token[1] \in Letters
  /\ \A i \in 1..Len(token) : token[i] \in Letters \cup Digits

RECURSIVE DigitsValue(_, _)
DigitsValue(token, i) ==
  IF i = 0 THEN 0 ELSE 10 * DigitsValue(token, i - 1) + DigitValue(token[i])

float(token) == Float(DigitsValue(token, Len(token)))

InRange(tokens, pos) == pos < Len(tokens)
Tok(tokens, pos) == tokens[pos + 1]

kw_if == <<"i", "f">>
kw_then == <<"t", "h", "e", "n">>
kw_else == <<"e", "l", "s", "e">>

Ok(node, pos) == [node |-> node, pos |-> pos, err |-> NoErr]
Fail(kind) == [node |-> NoneNode, pos |-> 0, err |-> kind]

Precedence(op) ==
  CASE op = <<"+">> -> 1 [] op = <<"-">> -> 1
    [] op = <<"*">> -> 2 [] op = <<"/">> -> 2
    [] op = <<">">> -> 3 [] op = <<"<">> -> 3
    [] op = <<"=">> -> 0
    [] OTHER -> -1

\* the right operand parsed at the operator's own precedence
RightPrecedenceSame(op_precedence) == op_precedence

RightPrecedence(op_precedence) == op_precedence + 1

RECURSIVE parse_primary(_, _)
RECURSIVE parse_binary_op(_, _, _)
RECURSIVE binary_loop(_, _, _, _)
RECURSIVE parse_statement(_, _)

parse_expression(tokens, pos) == parse_binary_op(tokens, pos, 0)

parse_primary(tokens, pos) ==
  IF ~InRange(tokens, pos) THEN Fail("IndexError")
  ELSE LET token == Tok(tokens, pos)
       IN  IF isdigit(token) THEN Ok(Number(float(token)), pos + 1)
           ELSE IF isidentifier(token) THEN Ok(Variable(token), pos + 1)
           ELSE IF token = <<"(">>
           THEN LET inner == parse_expression(tokens, pos + 1)
                IN  IF inner.err # NoErr THEN inner
                    ELSE IF ~InRange(tokens, inner.pos) THEN Fail("IndexError")
                    ELSE IF Tok(tokens, inner.pos) # <<")">> THEN Fail("SyntaxError")
                    ELSE Ok(inner.node, inner.pos + 1)
           ELSE Fail("SyntaxError")

binary_loop(tokens, left, pos, precedence) ==
  IF ~(pos < Len(tokens)) THEN Ok(left, pos)
  ELSE LET op == Tok(tokens, pos)
           op_precedence == Precedence(op)
       IN  IF op_precedence < precedence THEN Ok(left, pos)
           ELSE LET right == parse_binary_op(tokens, pos + 1, RightPrecedence(op_precedence))
                IN  IF right.err # NoErr THEN right
                    ELSE binary_loop(tokens, BinaryOp(left, op, right.node),
                                     right.pos, precedence)

parse_binary_op(tokens, pos, precedence) ==
  LET first == parse_primary(tokens, pos)
  IN  IF first.err # NoErr THEN first
      ELSE binary_loop(tokens, first.node, first.pos, precedence)

\* the right-hand side of an assignment parsed as a statement
parse_assignment_statement(tokens, pos) == parse_statement(tokens, pos)

parse_assignment_value(tokens, pos) == parse_expression(tokens, pos)

parse_else(tokens, condition, then_branch) ==
  IF ~InRange(tokens, then_branch.pos) THEN Fail("IndexError")
  ELSE IF Tok(tokens, then_branch.pos) = kw_else
  THEN LET else_branch == parse_statement(tokens, then_branch.pos + 1)
       IN  IF else_branch.err # NoErr THEN else_branch
           ELSE Ok(IfStatement(condition.node, then_branch.node, else_branch.node),
                   else_branch.pos)
  ELSE Ok(IfStatement(condition.node, then_branch.node, NoneNode), then_branch.pos)

parse_statement(tokens, pos) ==
  IF ~InRange(tokens, pos) THEN Fail("IndexError")
  ELSE LET token == Tok(tokens, pos)
       IN  IF isidentifier(token) /\ ~InRange(tokens, pos + 1) THEN Fail("IndexError")
           ELSE IF isidentifier(token) /\ Tok(tokens, pos + 1) = <<"=">>
           THEN LET value == parse_assignment_value(tokens, pos + 2)
                IN  IF value.err # NoErr THEN value
                    ELSE Ok(Assignment(token, value.node), value.pos)
           ELSE IF token = kw_if
           THEN LET condition == parse_expression(tokens, pos + 1)
                IN  IF condition.err # NoErr THEN condition
                    ELSE IF ~InRange(tokens, condition.pos) THEN Fail("IndexError")
                    ELSE IF Tok(tokens, condition.pos) # kw_then THEN Fail("SyntaxError")
                    ELSE LET then_branch == parse_statement(tokens, condition.pos + 1)
                         IN  IF then_branch.err # NoErr THEN then_branch
                             ELSE parse_else(tokens, condition, then_branch)
           ELSE parse_expression(tokens, pos)

parse(tokens) == parse_statement(tokens, 0)

\* ---------------------------------------------------------------- evaluate
EmptyEnv == [x \in {} |-> NoneVal]

\* the binding replaces the environment
BindAlone(env, name, value) == [x \in {name} |-> value]

Bind(env, name, value) ==
  [x \in DOMAIN env \cup {name} |-> IF x = name THEN value ELSE env[x]]

Val(env, val) == [env |-> env, val |-> val, err |-> NoErr]
Raise(env, kind) == [env |-> env, val |-> NoneVal, err |-> kind]

LookupVar(env, name) ==
  IF name \notin DOMAIN env THEN Raise(env, "NameError") ELSE Val(env, env[name])

\* the name is bound before the value is known to have evaluated
AssignResultEarly(name, value) ==
  IF value.err # NoErr THEN Raise(Bind(value.env, name, NoneVal), value.err)
  ELSE Val(Bind(value.env, name, value.val), value.val)

AssignResult(name, value) ==
  IF value.err # NoErr THEN value
  ELSE Val(Bind(value.env, name, value.val), value.val)

\* the zero test of / made on either operand
ApplyOpZeroEither(env, operator, left, right) ==
  IF operator = <<"/">> /\ (left.n = 0 \/ right.n = 0) THEN Raise(env, "ZeroDivisionError")
  ELSE IF operator = <<"/">> THEN Val(env, Norm("float", left.n * right.d, left.d * right.n))
  ELSE Raise(env, "ValueError")

ApplyOp(env, operator, left, right) ==
  CASE operator = <<"+">> ->
         Val(env, Norm(ArithKind(left, right), left.n * right.d + right.n * left.d,
                       left.d * right.d))
    [] operator = <<"-">> ->
         Val(env, Norm(ArithKind(left, right), left.n * right.d - right.n * left.d,
                       left.d * right.d))
    [] operator = <<"*">> ->
         Val(env, Norm(ArithKind(left, right), left.n * right.n, left.d * right.d))
    [] operator = <<"/">> ->
         IF right.n = 0 THEN Raise(env, "ZeroDivisionError")
         ELSE Val(env, Norm("float", left.n * right.d, left.d * right.n))
    [] operator = <<">">> -> Val(env, Bool(left.n * right.d > right.n * left.d))
    [] operator = <<"<">> -> Val(env, Bool(left.n * right.d < right.n * left.d))
    [] operator = <<"=">> -> Val(env, Bool(left.n * right.d = right.n * left.d))
    [] OTHER -> Raise(env, "ValueError")

RECURSIVE evaluate(_, _)
evaluate(node, env) ==
  CASE node.type = "Number" -> Val(env, node.value)
    [] node.type = "Variable" -> LookupVar(env, node.name)
    [] node.type = "Assignment" -> AssignResult(node.name, evaluate(node.value, env))
    [] node.type = "BinaryOp" ->
         LET left == evaluate(node.left, env)
         IN  IF left.err # NoErr THEN left
             ELSE LET right == evaluate(node.right, left.env)
                  IN  IF right.err # NoErr THEN right
                      ELSE ApplyOp(right.env, node.operator, left.val, right.val)
    [] node.type = "IfStatement" ->
         LET condition == evaluate(node.condition, env)
         IN  IF condition.err # NoErr THEN condition
             ELSE IF Truthy(condition.val) THEN evaluate(node.then_branch, condition.env)
             ELSE IF node.else_branch # NoneNode
             THEN evaluate(node.else_branch, condition.env)
             ELSE Val(condition.env, NoneVal)
    [] OTHER -> Raise(env, "TypeError")

\* ------------------------------------------------------------- input lines
RECURSIVE Join(_)
Join(words) ==
  IF Len(words) = 0 THEN << >>
  ELSE IF Len(words) = 1 THEN words[1]
  ELSE words[1] \o <<" ">> \o Join(Tail(words))

RECURSIVE Squeeze(_)
Squeeze(words) ==
  IF Len(words) = 0 THEN << >> ELSE words[1] \o Squeeze(Tail(words))

RECURSIVE WordSeqs(_, _)
WordSeqs(alphabet, n) ==
  IF n = 0 THEN {<< >>}
  ELSE LET shorter == WordSeqs(alphabet, n - 1)
       IN  shorter \cup {<<w>> \o ws : w \in alphabet, ws \in {x \in shorter : Len(x) = n - 1}}

w0 == <<"0">>
w1 == <<"1">>
w2 == <<"2">>
w3 == <<"3">>
w4 == <<"4">>
w5 == <<"5">>
w10 == <<"1", "0">>
wx == <<"x">>
wy == <<"y">>
wfi == <<"f", "i">>
PLUS == <<"+">>
MINUS == <<"-">>
TIMES == <<"*">>
DIV == <<"/">>
EQ == <<"=">>
GT == <<">">>
LT == <<"<">>
LP == <<"(">>
RP == <<")">>

Operators == {PLUS, MINUS, TIMES, DIV, GT, LT, EQ}
Operands == {w2, w3, wx, kw_if}

\* a op1 b op2 c
Chains == {<<a, op1, b, op2, c>> : a \in Operands, b \in Operands, c \in Operands,
                                   op1 \in Operators, op2 \in Operators}

\* every token sequence of at most MaxLen tokens over a small alphabet
Alphabet == {w0, w2, wx, wy, EQ, DIV, LP, kw_if}
ShortLines == WordSeqs(Alphabet, MaxLen)

\* the same, over the tokens that bind, read and divide
SessionAlphabet == {w0, w2, wx, wy, EQ, DIV}
SessionShortLines == WordSeqs(SessionAlphabet, MaxLen)

Conditions == {<<w0, GT, w1>>, <<w1, GT, w0>>, <<wx>>}
Branches == {<<w5>>, <<wx, EQ, w5>>, <<wy>>}
\* if C then S
IfNoElse == {<<kw_if>> \o c \o <<kw_then>> \o s : c \in Conditions, s \in Branches}
\* if C then S followed by a token that is not else
IfTrailing == {l \o <<wfi>> : l \in IfNoElse}
\* if C then S else S
IfElse == {l \o <<kw_else>> \o s : l \in IfNoElse, s \in {<<w10>>, <<wy, EQ, w2>>}}

Inner == {<<w2, PLUS, w3>>, <<w2, PLUS, w3, TIMES, w4>>, <<wx>>, <<w2>>}
\* ( expression, then the end of the tokens or a token that is not )
MissingParen == {<<LP>> \o e \o rest : e \in Inner, rest \in {<< >>, <<kw_then>>, <<w4>>}}

Examples ==
  { <<w2, MINUS, w3, MINUS, w4>>,
    <<w2, TIMES, w3, GT, w5>>,
    <<LP, w2, PLUS, w3, RP, TIMES, w4>>,
    <<wx, EQ, w10, DIV, w5>>,
    <<w5, DIV, w0>>,
    <<wx, EQ, kw_if, w0, GT, w1, kw_then, w5, wfi>>,
    <<kw_if, EQ, w5>> }

\* lines typed without blanks, with characters the lexer drops, with =>
Dense == { <<"x", "=", "1", "0", "/", "5">>,
           <<"2", "x", "$", " ", "y", "=", ">", "3">>,
           <<" ", " ", "2", " ", "-", "3", "-", " ", "4", "!">> }

\* the lines of the single-statement runs
Lines ==
  {Join(l) : l \in Chains \cup ShortLines \cup IfNoElse \cup IfTrailing \cup IfElse
                   \cup MissingParen \cup Examples}
  \cup Dense

\* the lines typed into the interactive loop
SessionLines ==
  {Join(l) : l \in SessionShortLines \cup IfNoElse \cup IfTrailing \cup IfElse
                   \cup Examples}
  \cup Dense

\* environments the loop can have built before a line is read
SampleEnvs ==
  { [x \in {} |-> NoneVal],
    [x \in {wx} |-> Float(0)],
    [x \in {wx, wy} |-> IF x = wx THEN Float(2) ELSE Bool(TRUE)] }

\* ------------------------------------------------------------------- state
VARIABLES pc, code, tokens, ast, result, env, err, lines

vars == <<pc, code, tokens, ast, result, env, err, lines>>

Init ==
  /\ pc = "input"
  /\ code = << >>
  /\ tokens = << >>
  /\ ast = NoneNode
  /\ result = NoneVal
  /\ env = EmptyEnv
  /\ err = NoErr
  /\ lines = 0

\* code = input(">>> ")
Read(line) ==
  /\ pc = "input"
  /\ lines < MaxLines
  /\ code' = line
  /\ lines' = lines + 1
  /\ pc' = "tokenize"
  /\ UNCHANGED <<tokens, ast, result, env, err>>

\* input() at the end of the input raises EOFError, which nothing catches
EndOfInput ==
  /\ pc = "input"
  /\ pc' = "terminated"
  /\ err' = "EOFError"
  /\ UNCHANGED <<code, tokens, ast, result, env, lines>>

\* tokens = tokenize(code)
Tokenize ==
  /\ pc = "tokenize"
  /\ tokens' = tokenize(code)
  /\ pc' = "parse"
  /\ UNCHANGED <<code, ast, result, env, err, lines>>

\* ast = parse(tokens); an exception of parse is not caught
Parse ==
  /\ pc = "parse"
  /\ LET parsed == parse(tokens)
     IN  IF parsed.err # NoErr
         THEN /\ pc' = "terminated"
              /\ err' = parsed.err
              /\ ast' = ast
         ELSE /\ pc' = "evaluate"
              /\ err' = err
              /\ ast' = parsed.node
  /\ UNCHANGED <<code, tokens, result, env, lines>>

\* result = evaluate(ast, env); env is updated in place, also when evaluate
\* raises; an exception of evaluate is not caught
Evaluate ==
  /\ pc = "evaluate"
  /\ LET evaluated == evaluate(ast, env)
     IN  /\ env' = evaluated.env
         /\ IF evaluated.err # NoErr
            THEN /\ pc' = "terminated"
                 /\ err' = evaluated.err
                 /\ result' = result
            ELSE /\ pc' = "print"
                 /\ err' = err
                 /\ result' = evaluated.val
  /\ UNCHANGED <<code, tokens, ast, lines>>

\* print(result), and the loop goes round; code, tokens, ast and result are
\* not read again before the next iteration assigns them
PrintResult ==
  /\ pc = "print"
  /\ pc' = "input"
  /\ code' = << >>
  /\ tokens' = << >>
  /\ ast' = NoneNode
  /\ result' = NoneVal
  /\ UNCHANGED <<env, err, lines>>

Next ==
  \/ \E line \in SessionLines : Read(line)
  \/ EndOfInput
  \/ Tokenize
  \/ Parse
  \/ Evaluate
  \/ PrintResult

Spec == Init /\ [][Next]_vars

\* One statement run through tokenize -> parse -> evaluate (one iteration of
\* the loop, from the line just read up to the print), for every line of
\* Lines under every environment of SampleEnvs.
InitLine ==
  /\ pc = "tokenize"
  /\ code \in Lines
  /\ tokens = << >>
  /\ ast = NoneNode
  /\ result = NoneVal
  /\ env \in SampleEnvs
  /\ err = NoErr
  /\ lines = 1

NextLine ==
  \/ Tokenize
  \/ Parse
  \/ Evaluate

SpecLine == InitLine /\ [][NextLine]_vars

\* ------------------------------------------------------------------ claims
ParseErrors == {"IndexError", "SyntaxError"}
EvalErrors == {"NameError", "ZeroDivisionError", "ValueError", "TypeError"}

\* parse has returned an AST for the current line
Parsed == pc \in {"evaluate", "print"} \/ (pc = "terminated" /\ err \in EvalErrors)
\* parse has raised on the current line
ParseFailed == pc = "terminated" /\ err \in ParseErrors
ParseDone == Parsed \/ ParseFailed

IsOperand(token) == isdigit(token) \/ isidentifier(token)
Primary(token) == IF isdigit(token) THEN Number(float(token)) ELSE Variable(token)

\* the tokens are a op1 b op2 c
IsChain(t) ==
  /\ Len(t) = 5
  /\ IsOperand(t[1]) /\ IsOperand(t[3]) /\ IsOperand(t[5])
  /\ t[2] \in Operators /\ t[4] \in Operators

LeftGrouped(t) ==
  BinaryOp(BinaryOp(Primary(t[1]), t[2], Primary(t[3])), t[4], Primary(t[5]))
RightGrouped(t) ==
  BinaryOp(Primary(t[1]), t[2], BinaryOp(Primary(t[3]), t[4], Primary(t[5])))

Line_2_minus_3_minus_4 == Join(<<w2, MINUS, w3, MINUS, w4>>)
Line_2_times_3_gt_5 == Join(<<w2, TIMES, w3, GT, w5>>)
Line_paren_times_4 == Join(<<LP, w2, PLUS, w3, RP, TIMES, w4>>)
Line_x_is_10_div_5 == Join(<<wx, EQ, w10, DIV, w5>>)
Line_5_div_0 == Join(<<w5, DIV, w0>>)

\* C1 as stated: a chain a op1 b op2 c of operators of equal precedence parses
\* to BinaryOp(a, op1, BinaryOp(b, op2, c)), and "2 - 3 - 4" evaluates to 3.
C1_GroupsRight ==
  /\ (ParseDone /\ IsChain(tokens) /\ Precedence(tokens[2]) = Precedence(tokens[4]))
       => (Parsed /\ ast = RightGrouped(tokens))
  /\ (pc = "print" /\ code = Line_2_minus_3_minus_4) => result = Float(3)

\* the statement starts as an assignment or as an if statement
StartsStatementForm(t) == t[1] = kw_if \/ (isidentifier(t[1]) /\ t[2] = EQ)

\* C1 amended: a chain a op1 b op2 c of operators of equal precedence, not
\* starting with the keyword if or with an identifier followed by =, parses
\* to BinaryOp(BinaryOp(a, op1, b), op2, c); "2 - 3 - 4" evaluates to -5.
C1_GroupsLeft ==
  /\ (ParseDone /\ IsChain(tokens) /\ Precedence(tokens[2]) = Precedence(tokens[4])
        /\ ~StartsStatementForm(tokens))
       => (Parsed /\ ast = LeftGrouped(tokens))
  /\ (ParseDone /\ code = Line_2_minus_3_minus_4) => pc # "terminated"
  /\ (pc = "print" /\ code = Line_2_minus_3_minus_4) => result = Float(-5)

C1_Witness ==
  /\ pc = "print"
  /\ code = Line_2_minus_3_minus_4
  /\ ast = LeftGrouped(tokens)

\* C2: a * b > c parses to BinaryOp(BinaryOp(a, '*', b), '>', c), the
\* comparison binding looser than the product, and "2 * 3 > 5" evaluates to
\* true.
C2_ComparisonBindsLooser ==
  /\ (ParseDone /\ IsChain(tokens) /\ tokens[2] = TIMES /\ tokens[4] = GT
        /\ tokens[1] # kw_if)
       => (Parsed /\ ast = LeftGrouped(tokens))
  /\ (pc = "print" /\ code = Line_2_times_3_gt_5) => result = Bool(TRUE)

\* C3: an input if C then S with no else and no trailing tokens is parsed,
\* with no else branch; when C is falsy the result is None and the
\* environment is unchanged.
C3_IfWithoutElseAccepted ==
  (ParseDone /\ tokens \in IfNoElse)
    => /\ Parsed
       /\ ast.type = "IfStatement"
       /\ ast.else_branch = NoneNode
       /\ pc = "print" /\ ~Truthy(evaluate(ast.condition, env).val)
            => result = NoneVal

\* C4: ( expression not followed by ), the end of the tokens included, makes
\* parse raise SyntaxError; "(2 + 3) * 4" evaluates to 20.
C4_MissingParenIsSyntaxError ==
  /\ (ParseDone /\ tokens \in MissingParen) => (pc = "terminated" /\ err = "SyntaxError")
  /\ (pc = "print" /\ code = Line_paren_times_4) => result = Float(20)

\* C5: a line whose parse or evaluation fails leaves every binding of the
\* environment as it was before the line was read: no step from reading the
\* line to the failure changes the environment.
C5_FailureLeavesEnv ==
  [][(pc' = "terminated" \/ pc \in {"input", "tokenize", "parse"}) => env' = env]_vars

C5_Witness ==
  /\ pc = "terminated"
  /\ err = "NameError"
  /\ ast = Assignment(wx, Variable(wy))
  /\ wx \in DOMAIN env

\* C6: a line whose parse or evaluation fails never terminates the loop.
C6_LoopSurvivesFailure == pc = "terminated" => err = "EOFError"

\* the name bound when node is evaluated in environment e, << >> for none
RECURSIVE ExecutedTarget(_, _)
ExecutedTarget(node, e) ==
  CASE node.type = "Assignment" -> node.name
    [] node.type = "IfStatement" ->
         IF Truthy(evaluate(node.condition, e).val) THEN ExecutedTarget(node.then_branch, e)
         ELSE IF node.else_branch # NoneNode THEN ExecutedTarget(node.else_branch, e)
         ELSE << >>
    [] OTHER -> << >>

\* C7: a successfully evaluated statement that assigns to a name makes
\* Variable(name) evaluate to the assigned value from then on; every other
\* step, and every other name, keeps what Variable(name) evaluates to, the
\* UndefinedVariable failure included. "x = 10 / 5" makes Variable(x) 2.0.
C7_ProgramOrder ==
  [][/\ \A name \in DOMAIN env \cup DOMAIN env' \cup {wx, wy, kw_if} :
          IF pc = "evaluate" /\ pc' = "print" /\ ExecutedTarget(ast, env) = name
          THEN evaluate(Variable(name), env') = Val(env', result')
          ELSE /\ evaluate(Variable(name), env').err = evaluate(Variable(name), env).err
               /\ evaluate(Variable(name), env').val = evaluate(Variable(name), env).val
     /\ (pc' = "print" /\ code' = Line_x_is_10_div_5)
          => evaluate(Variable(wx), env').val = Float(2)
    ]_vars

C7_Witness ==
  /\ pc = "print"
  /\ lines = 2
  /\ ast = Assignment(wx, Variable(wy))
  /\ env[wx] = env[wy]

\* operands of the divisions C8 is checked on
DivOperands ==
  { Number(Float(0)), Number(Float(5)), Variable(wx), Variable(wy),
    BinaryOp(Number(Float(5)), DIV, Number(Float(0))),
    BinaryOp(Variable(wx), MINUS, Number(Float(2))) }

\* C8: BinaryOp(l, '/', r) fails with the failure of l when l fails, else
\* with the failure of r when r fails, else with DivisionByZero and no value
\* when r is zero, and else returns the float l / r; "5 / 0" fails with
\* DivisionByZero.
C8_Division ==
  /\ \A l \in DivOperands, r \in DivOperands :
       LET L == evaluate(l, env)
           R == evaluate(r, env)
           D == evaluate(BinaryOp(l, DIV, r), env)
       IN  /\ D.env = env
           /\ L.err # NoErr => D.err = L.err
           /\ (L.err = NoErr /\ R.err # NoErr) => D.err = R.err
           /\ (L.err = NoErr /\ R.err = NoErr /\ R.val.n = 0)
                => (D.err = "ZeroDivisionError" /\ D.val = NoneVal)
           /\ (L.err = NoErr /\ R.err = NoErr /\ R.val.n # 0)
                => /\ D.err = NoErr
                   /\ D.val.kind = "float"
                   /\ D.val.n * R.val.n * L.val.d = L.val.n * R.val.d * D.val.d
  /\ (ParseDone /\ code = Line_5_div_0)
       => (pc \in {"evaluate", "terminated"} /\ (pc = "terminated" => err = "ZeroDivisionError"))

C8_Witness ==
  /\ pc = "terminated"
  /\ err = "ZeroDivisionError"
  /\ ast = BinaryOp(Number(Float(2)), DIV, Variable(wx))
  /\ wx \in DOMAIN env

\* C9: a one-token line that is an identifier x parses to Variable(x), and
\* evaluates to the value bound to x or fails with UndefinedVariable.
C9_IdentifierStatement ==
  (ParseDone /\ Len(tokens) = 1 /\ isidentifier(tokens[1]))
    => /\ Parsed
       /\ ast = Variable(tokens[1])
       /\ pc = "print" => result = env[tokens[1]]
       /\ pc = "terminated" => (err = "NameError" /\ tokens[1] \notin DOMAIN env)

\* C10: every value bound in the environment is a number or a boolean, never
\* None.
C10_NoNoneInEnv == \A name \in DOMAIN env : env[name].kind \in {"float", "int", "bool"}

C10_Witness ==
  /\ pc = "print"
  /\ result = NoneVal
  /\ ast.type = "IfStatement"
  /\ env # EmptyEnv

=============================================================================
